---- MODULE Spec2Model ----
(***************************************************************************)
(* The step-advancement loop of solver.js (Browser Navigation Challenge    *)
(* Solver), with its code repository (decrypt, code lookup) and its        *)
(* end-of-run reporting.                                                   *)
(*                                                                         *)
(* The page is external: every read of the location (page.url(), the       *)
(* predicate of page.waitForURL) is an input chosen by the target.  The    *)
(* driver's operations themselves are taken to complete (they do not       *)
(* throw); waitForURL is the one call whose timeout the code handles.      *)
(* Wall-clock values (durationMs, startTime, endTime) are not modelled.    *)
(***************************************************************************)
EXTENDS Integers, Sequences, FiniteSets, TLC

VARIABLES
    pc,          \* position of the async main function
    attempt,     \* loop counter of the step loop
    lastStep,    \* let lastStep
    step,        \* const step of the current iteration (0: none)
    code,        \* const code of the current iteration
    runStats,    \* the runStats object (timestamps and metrics left out)
    shots,       \* number of page.screenshot calls made
    saved,       \* contents written to output/run_stats.json, in order
    exitCode,    \* exit status of the node process (-1: still running)
    codes,       \* const codes: the code list taken from the session blob
    blob,        \* sessionStorage 'wo_session' as the target wrote it
    text,        \* the decrypted session text
    plainCodes,  \* the code list the target encoded into the blob
    index,       \* a position asked of the code list
    out,         \* the code the lookup returned
    lastPoll,    \* history: what the latest read at the loop head showed
    polls,       \* history: number of times the loop body was entered
    exitKind,    \* history: how the loop was left
    finishSeen,  \* history: some location read contained /finish
    atFinish,    \* history: the latest location read contained /finish
    maxSeen,     \* history: largest step index read from the location
    orderly,     \* history: so far the target showed step 1, 2, ... in turn,
                 \* one advance per submission, then /finish after step 29
    retry,       \* history: the step whose wait timed out without progress
                 \* in the previous iteration and that the poll after it
                 \* shows again (0: none)
    script,      \* the launcher in use: "sh" (solve.sh) or "ps" (solve.ps1)
    banner,      \* the result banner the launcher printed ("none": none)
    launcherExit,\* exit status of the launcher (-1: still running)
    dom,         \* the elements of the page's document
    passes,      \* passes of the dismissal sweep made so far
    clicks,      \* el.click() calls the sweep made so far
    absorbed,    \* exceptions the sweep's click wrapper caught so far
    scrolled,    \* the sweep scrolled to the bottom of the page
    markers,     \* step indices of the interaction markers in sessionStorage
    events       \* what the step attempt did to the page so far, in order

\* the code repository's own state; the step loop only reads codes
repoVars == <<codes, blob, text, plainCodes, index, out>>

\* the launcher's state
launchVars == <<script, banner, launcherExit>>

\* the page's document and what one step attempt does to it
pageVars == <<dom, passes, clicks, absorbed, scrolled, markers, events>>

\* what the step loop, taken as a whole, leaves alone
outerVars == <<launchVars, pageVars>>

vars == <<pc, attempt, lastStep, step, code, runStats, shots, saved,
          exitCode, polls, exitKind, finishSeen, atFinish, maxSeen, lastPoll,
          orderly, retry, repoVars, outerVars>>

----------------------------------------------------------------------------
(* Bounds of the model *)

\* the target skips at most this many step indices in total
MaxSkip == 0
\* largest step index the target ever puts in its location
MaxUrlStep == 32
\* largest exit status node hands to the launcher
MaxStatus == 255
\* longest of the short code lists a session is made of
MaxCodes == 2
\* largest position asked of a code list
MaxIndex == 35

(* Program constants *)

MaxAttempts == 120
BypassStep == 30
FinalStep == 30
TotalSteps == 30
FallbackIndex == 29
SweepPasses == 12

\* Strings are sequences of character codes.  The JavaScript value
\* undefined is a sequence no string equals.
Undefined == << -1 >>
EmptyString == << >>
\* the JavaScript value null: what getItem returns for an absent key
Null == << -2 >>
\* exit status of node when the main function's promise is rejected
CrashStatus == 1

\* 'N/A (router bypass)'
BypassCode ==
    << 78, 47, 65, 32, 40, 114, 111, 117, 116, 101, 114, 32,
       98, 121, 112, 97, 115, 115, 41 >>
BypassMethod == "history.pushState"
SubmitMethod == "code_submission"

Min(a, b) == IF a < b THEN a ELSE b
Max(a, b) == IF a > b THEN a ELSE b

----------------------------------------------------------------------------
(* Code repository *)

\* a JavaScript array is a sequence; arr[i] is 0-based and undefined
\* outside the array
At(arr, i) == IF i \in 0..(Len(arr) - 1) THEN arr[i + 1] ELSE Undefined

\* JavaScript truthiness of a string or undefined
Truthy(v) == v # Undefined /\ v # EmptyString

\* const code = codes[step] || codes[29];
CodeFor(table, s) ==
    IF Truthy(At(table, s)) THEN At(table, s) ELSE At(table, FallbackIndex)

\* 'WO_2024_CHALLENGE'
XOR_KEY ==
    << 87, 79, 95, 50, 48, 50, 52, 95, 67, 72, 65, 76, 76, 69, 78, 71, 69 >>

RECURSIVE BitXor(_, _)
\* a ^ b on non-negative integers
BitXor(a, b) ==
    IF a = 0 /\ b = 0 THEN 0
    ELSE (((a % 2) + (b % 2)) % 2) + 2 * BitXor(a \div 2, b \div 2)

\* value of a base64 character, -1 for any other character ('-' and '_'
\* are taken as '+' and '/')
B64Val(c) ==
    IF c \in 65..90 THEN c - 65
    ELSE IF c \in 97..122 THEN c - 97 + 26
    ELSE IF c \in 48..57 THEN c - 48 + 52
    ELSE IF c = 43 \/ c = 45 THEN 62
    ELSE IF c = 47 \/ c = 95 THEN 63
    ELSE -1

IsB64(v) == v # -1

\* the values of the base64 characters of s up to the first '=', other
\* characters skipped
Sextets(s) ==
    LET pads == { j \in 1..Len(s) : s[j] = 61 }
        cut == IF pads = {} THEN Len(s) + 1
               ELSE CHOOSE j \in pads : \A k \in pads : j <= k
    IN  SelectSeq([j \in 1..(cut - 1) |-> B64Val(s[j])], IsB64)

\* 4 sextets make 3 bytes; 3 trailing sextets 2 bytes; 2 trailing 1 byte
BytesOf(v) ==
    LET n == Len(v)
        nbytes == (n \div 4) * 3
                  + (IF n % 4 = 2 THEN 1 ELSE IF n % 4 = 3 THEN 2 ELSE 0)
    IN  [k \in 1..nbytes |->
            LET g == 4 * ((k - 1) \div 3)
            IN  CASE (k - 1) % 3 = 0 -> v[g + 1] * 4 + (v[g + 2] \div 16)
                  [] (k - 1) % 3 = 1 ->
                        (v[g + 2] % 16) * 16 + (v[g + 3] \div 4)
                  [] OTHER -> (v[g + 3] % 4) * 64 + v[g + 4]]

\* Buffer.from(encoded, 'base64').toString('binary'): one character per
\* byte
Base64Decode(encoded) == BytesOf(Sextets(encoded))

\* decrypt, were the key indexed from 1 instead of 0
decryptKeyShifted(encoded) ==
    LET decoded == Base64Decode(encoded)
    IN  [i \in 1..Len(decoded) |->
            BitXor(decoded[i], XOR_KEY[(i % Len(XOR_KEY)) + 1])]

\* function decrypt(encoded); character i (0-based) is XORed with key
\* character i % key length
decrypt(encoded) ==
    LET decoded == Base64Decode(encoded)
    IN  [i \in 1..Len(decoded) |->
            BitXor(decoded[i], XOR_KEY[((i - 1) % Len(XOR_KEY)) + 1])]

\* '{"codes":['  and  ']}'
JsonOpen == << 123, 34, 99, 111, 100, 101, 115, 34, 58, 91 >>
JsonClose == << 93, 125 >>
Quote == 34
Comma == 44

\* position of the first quote in b, 0 if there is none
FirstQuote(b) ==
    LET qs == { j \in 1..Len(b) : b[j] = Quote }
    IN  IF qs = {} THEN 0 ELSE CHOOSE j \in qs : \A k \in qs : j <= k

ParseError == [ok |-> FALSE, list |-> << >>]

RECURSIVE ParseItems(_)
\* the strings of a comma-separated list of quoted strings (no escapes)
ParseItems(b) ==
    IF b = << >> \/ b[1] # Quote THEN ParseError
    ELSE LET rest0 == Tail(b)
             q == FirstQuote(rest0)
         IN  IF q = 0 THEN ParseError
             ELSE LET item == SubSeq(rest0, 1, q - 1)
                      rest == SubSeq(rest0, q + 1, Len(rest0))
                  IN  IF rest = << >> THEN [ok |-> TRUE, list |-> << item >>]
                      ELSE IF rest[1] # Comma THEN ParseError
                      ELSE LET more == ParseItems(Tail(rest))
                           IN  IF more.ok
                                 THEN [ok |-> TRUE,
                                       list |-> << item >> \o more.list]
                                 ELSE ParseError

\* JSON.parse(text).codes, for a document that holds the code list alone
JsonCodes(t) ==
    LET n == Len(t)
    IN  IF n < Len(JsonOpen) + Len(JsonClose) THEN ParseError
        ELSE IF SubSeq(t, 1, Len(JsonOpen)) # JsonOpen THEN ParseError
        ELSE IF SubSeq(t, n - 1, n) # JsonClose THEN ParseError
        ELSE IF n = Len(JsonOpen) + Len(JsonClose)
            THEN [ok |-> TRUE, list |-> << >>]
        ELSE ParseItems(SubSeq(t, Len(JsonOpen) + 1, n - 2))

(* The target's side of the session blob *)

RECURSIVE JoinQuoted(_)
JoinQuoted(list) ==
    IF list = << >> THEN << >>
    ELSE << Quote >> \o Head(list) \o << Quote >>
         \o (IF Len(list) > 1 THEN << Comma >> ELSE << >>)
         \o JoinQuoted(Tail(list))

\* JSON.stringify({codes: list})
Stringify(list) == JsonOpen \o JoinQuoted(list) \o JsonClose

\* the base64 character of a value
B64Char(v) ==
    IF v < 26 THEN 65 + v
    ELSE IF v < 52 THEN 97 + (v - 26)
    ELSE IF v < 62 THEN 48 + (v - 52)
    ELSE IF v = 62 THEN 43 ELSE 47

\* 3 bytes make 4 characters; the last group is padded with '='
Base64Encode(b) ==
    LET n == Len(b)
        byte(j) == IF j <= n THEN b[j] ELSE 0
    IN  [k \in 1..(4 * ((n + 2) \div 3)) |->
            LET g == 3 * ((k - 1) \div 4)
            IN  CASE (k - 1) % 4 = 0 -> B64Char(byte(g + 1) \div 4)
                  [] (k - 1) % 4 = 1 ->
                        B64Char((byte(g + 1) % 4) * 16 + (byte(g + 2) \div 16))
                  [] (k - 1) % 4 = 2 ->
                        IF g + 2 > n THEN 61
                        ELSE B64Char((byte(g + 2) % 16) * 4
                                     + (byte(g + 3) \div 64))
                  [] OTHER ->
                        IF g + 3 > n THEN 61 ELSE B64Char(byte(g + 3) % 64)]

\* the plaintext XORed with the repeating key, then base64
Encrypt(plain) ==
    Base64Encode([i \in 1..Len(plain) |->
        BitXor(plain[i], XOR_KEY[((i - 1) % Len(XOR_KEY)) + 1])])

\* 'A', 'B1', and a code with a byte above 127
ShortCodes == { << 65 >>, << 66, 49 >>, << 233, 49 >> }

RECURSIVE ListsUpTo(_, _)
ListsUpTo(S, n) ==
    IF n = 0 THEN { << >> }
    ELSE LET shorter == ListsUpTo(S, n - 1)
         IN  shorter \cup { Append(l, c) : l \in shorter, c \in S }

\* 31 codes, 'K00' .. 'K30'
LongCodes ==
    [i \in 1..(TotalSteps + 1) |->
        << 75, 48 + ((i - 1) \div 10), 48 + ((i - 1) % 10) >>]

\* the code lists a session can hold: short ones, some with an empty
\* code, and lists of 29, 30 and 31 codes
PlainLists ==
    ListsUpTo(ShortCodes \cup { EmptyString }, MaxCodes)
        \cup { SubSeq(LongCodes, 1, n) :
                 n \in { TotalSteps - 1, TotalSteps, TotalSteps + 1 } }

\* the code list of the session the engine runs with: 30 codes,
\* 'K00' .. 'K29'
SessionCodes ==
    [i \in 1..TotalSteps |->
        << 75, 48 + ((i - 1) \div 10), 48 + ((i - 1) % 10) >>]

----------------------------------------------------------------------------
(* The target's location, as the engine reads it *)

\* step indices a read of the location can show, given the records so far
Observable(nrec) == 0..Min(MaxUrlStep, nrec + 1 + MaxSkip)

\* the step indices taken for a read at the loop head: the engine only
\* compares the index with lastStep (and with 30), so 0 and lastStep stand
\* for all the indices up to lastStep
Shown(nrec) == { s \in Observable(nrec) : s = 0 \/ s >= lastStep }

Seen(m) == maxSeen' = Max(maxSeen, m)

\* no launcher and no document in view
OuterIdle ==
    /\ script = "none"
    /\ banner = "none"
    /\ launcherExit = -1
    /\ dom = {}
    /\ passes = 0
    /\ clicks = 0
    /\ absorbed = 0
    /\ scrolled = FALSE
    /\ markers = {}
    /\ events = << >>

----------------------------------------------------------------------------
(* Engine *)

Init ==
    /\ pc = "poll"
    /\ attempt = 0
    /\ lastStep = 0
    /\ step = 0
    /\ code = Undefined
    /\ runStats = [stepsCompleted |-> 0, totalSteps |-> TotalSteps,
                   success |-> FALSE, stepDetails |-> <<>>, endTime |-> "null"]
    /\ shots = 0
    /\ saved = <<>>
    /\ exitCode = -1
    /\ polls = 0
    /\ exitKind = "running"
    /\ finishSeen = FALSE
    /\ atFinish = FALSE
    /\ maxSeen = 0
    /\ lastPoll = "none"
    /\ orderly = TRUE
    /\ retry = 0
    /\ OuterIdle
    /\ codes = SessionCodes
    /\ blob = << >>
    /\ text = << >>
    /\ plainCodes = << >>
    /\ index = 0
    /\ out = Undefined

InLoop == pc = "poll" /\ attempt < MaxAttempts

\* for (...; attempt < 120; ...) fails
LoopExhausted ==
    /\ pc = "poll"
    /\ ~(attempt < MaxAttempts)
    /\ pc' = "final"
    /\ exitKind' = "exhausted"
    /\ UNCHANGED <<repoVars, outerVars, atFinish, orderly, lastPoll, attempt,
                   lastStep, step, code, runStats, shots, saved, exitCode,
                   polls, finishSeen, maxSeen, retry>>

\* the finish check, were it to leave lastStep alone
PollFinishKeepsLastStep ==
    /\ InLoop
    /\ polls' = polls + 1
    /\ finishSeen' = TRUE
    /\ pc' = "final"
    /\ exitKind' = "break"
    /\ lastPoll' = "finish"
    /\ orderly' = (orderly /\ lastStep = FinalStep - 1)
    /\ atFinish' = TRUE
    /\ retry' = 0
    /\ UNCHANGED <<repoVars, outerVars, attempt, lastStep, step, code,
                   runStats, shots, saved, exitCode, maxSeen>>

\* url.includes('/finish'): lastStep = 30; break
PollFinish ==
    /\ InLoop
    /\ polls' = polls + 1
    /\ finishSeen' = TRUE
    /\ lastStep' = FinalStep
    /\ pc' = "final"
    /\ exitKind' = "break"
    /\ lastPoll' = "finish"
    /\ orderly' = (orderly /\ lastStep = FinalStep - 1)
    /\ atFinish' = TRUE
    /\ retry' = 0
    /\ UNCHANGED <<repoVars, outerVars, attempt, step, code, runStats, shots,
                   saved, exitCode, maxSeen>>

\* the no-op wait, were it not to count against the budget
PollUnknownUncounted ==
    /\ InLoop
    /\ polls' = polls + 1
    /\ lastPoll' = "unknown"
    /\ orderly' = FALSE
    /\ atFinish' = FALSE
    /\ retry' = 0
    /\ UNCHANGED <<repoVars, outerVars, attempt, pc, lastStep, step, code,
                   runStats, shots, saved, exitCode, exitKind, finishSeen,
                   maxSeen>>

\* no step marker: waitForTimeout(100); continue
PollUnknown ==
    /\ InLoop
    /\ polls' = polls + 1
    /\ attempt' = attempt + 1
    /\ lastPoll' = "unknown"
    /\ orderly' = FALSE
    /\ atFinish' = FALSE
    /\ retry' = 0
    /\ UNCHANGED <<repoVars, outerVars, pc, lastStep, step, code, runStats,
                   shots, saved, exitCode, exitKind, finishSeen, maxSeen>>

\* the guard, were it to turn away a step that was tried before
SkipTried(s) == s <= lastStep \/ s = retry

\* the guard with its comparison off by one
SkipCompletedStrict(s) == s < lastStep

\* if (step <= lastStep) { waitForTimeout(50); continue; }
SkipCompleted(s) == s <= lastStep

\* the poll of a completed step, were it to take the step shown as the
\* last one completed
PollCompletedRewinds ==
    /\ InLoop
    /\ \E s \in Shown(Len(runStats.stepDetails)) :
        /\ SkipCompleted(s)
        /\ Seen(s)
        /\ lastStep' = s
    /\ polls' = polls + 1
    /\ attempt' = attempt + 1
    /\ lastPoll' = "completed"
    /\ orderly' = FALSE
    /\ atFinish' = FALSE
    /\ retry' = 0
    /\ UNCHANGED <<repoVars, outerVars, pc, step, code, runStats, shots,
                   saved, exitCode, exitKind, finishSeen>>

PollCompleted ==
    /\ InLoop
    /\ \E s \in Shown(Len(runStats.stepDetails)) :
        /\ SkipCompleted(s)
        /\ Seen(s)
    /\ polls' = polls + 1
    /\ attempt' = attempt + 1
    /\ lastPoll' = "completed"
    /\ orderly' = FALSE
    /\ atFinish' = FALSE
    /\ retry' = 0
    /\ UNCHANGED <<repoVars, outerVars, pc, lastStep, step, code, runStats,
                   shots, saved, exitCode, exitKind, finishSeen>>

\* a step not yet completed: go on to the bypass (step 30) or to the
\* ordinary path
PollStep ==
    /\ InLoop
    /\ \E s \in Shown(Len(runStats.stepDetails)) :
        /\ ~SkipCompleted(s)
        /\ Seen(s)
        /\ step' = s
        /\ retry' = IF s = retry THEN retry ELSE 0
        /\ orderly' = (orderly /\ s = lastStep + 1 /\ s < BypassStep)
        /\ pc' = IF s = BypassStep THEN "bypass" ELSE "attempt"
    /\ polls' = polls + 1
    /\ lastPoll' = "step"
    /\ atFinish' = FALSE
    /\ UNCHANGED <<repoVars, outerVars, attempt, lastStep, code, runStats,
                   shots, saved, exitCode, exitKind, finishSeen>>

\* the push, were it to put the record at the head of the log
PushFirst(rec) ==
    runStats' = [runStats EXCEPT !.stepDetails = << rec >> \o @]

\* runStats.stepDetails.push(rec)
Push(rec) == runStats' = [runStats EXCEPT !.stepDetails = Append(@, rec)]

\* the verified bypass, were it to write no record
BypassVerifiedNoRecord ==
    /\ pc = "bypass"
    /\ finishSeen' = TRUE
    /\ lastStep' = FinalStep
    /\ pc' = "final"
    /\ exitKind' = "break"
    /\ orderly' = FALSE
    /\ atFinish' = TRUE
    /\ UNCHANGED <<repoVars, outerVars, lastPoll, attempt, step, code,
                   runStats, shots, saved, exitCode, polls, maxSeen, retry>>

\* history.pushState + popstate, 500 ms, page.url() shows /finish
BypassVerified ==
    /\ pc = "bypass"
    /\ finishSeen' = TRUE
    /\ Push([step |-> BypassStep, code |-> BypassCode, method |-> BypassMethod])
    /\ lastStep' = FinalStep
    /\ pc' = "final"
    /\ exitKind' = "break"
    /\ orderly' = FALSE
    /\ atFinish' = TRUE
    /\ UNCHANGED <<repoVars, outerVars, lastPoll, attempt, step, code, shots,
                   saved, exitCode, polls, maxSeen, retry>>

\* the unverified bypass, were it to give the iteration up
BypassUnverifiedEndsIteration ==
    /\ pc = "bypass"
    /\ attempt' = attempt + 1
    /\ step' = 0
    /\ code' = Undefined
    /\ lastPoll' = "none"
    /\ pc' = "poll"
    /\ orderly' = FALSE
    /\ atFinish' = FALSE
    /\ UNCHANGED <<repoVars, outerVars, lastStep, runStats, shots, saved,
                   exitCode, polls, exitKind, finishSeen, maxSeen, retry>>

\* ... page.url() does not show /finish: on to the ordinary path
BypassFallThrough ==
    /\ pc = "bypass"
    /\ pc' = "attempt"
    /\ orderly' = FALSE
    /\ atFinish' = FALSE
    /\ UNCHANGED <<repoVars, outerVars, lastPoll, attempt, lastStep, step,
                   code, runStats, shots, saved, exitCode, polls, exitKind,
                   finishSeen, maxSeen, retry>>

\* code lookup, dismissal sweep, code entry, submit
Attempt ==
    /\ pc = "attempt"
    /\ code' = CodeFor(codes, step)
    /\ pc' = "wait"
    /\ UNCHANGED <<repoVars, outerVars, atFinish, orderly, lastPoll, attempt,
                   lastStep, step, runStats, shots, saved, exitCode, polls,
                   exitKind, finishSeen, maxSeen, retry>>

SubmitRecord == [step |-> step, code |-> code, method |-> SubmitMethod]

\* end of an iteration that was not left by break or continue
EndIteration ==
    /\ attempt' = attempt + 1
    /\ step' = 0
    /\ code' = Undefined
    /\ lastPoll' = "none"
    /\ pc' = "poll"

\* step indices past the current one that a read can show
Ahead == { m \in Observable(Len(runStats.stepDetails) + 1) : m > step }

\* waitForURL resolves: the location shows /finish or a step past this one
WaitProgress ==
    /\ pc = "wait"
    /\ \/ /\ finishSeen' = TRUE
          /\ atFinish' = TRUE
          /\ orderly' = (orderly /\ step = FinalStep - 1)
          /\ UNCHANGED maxSeen
       \/ \E m \in Ahead :
            /\ Seen(m)
            /\ orderly' = (orderly /\ m = step + 1 /\ m < BypassStep)
            /\ atFinish' = FALSE
            /\ UNCHANGED finishSeen
    /\ lastStep' = step
    /\ Push(SubmitRecord)
    /\ EndIteration
    /\ retry' = 0
    /\ UNCHANGED <<repoVars, outerVars, shots, saved, exitCode, polls,
                   exitKind>>

\* waitForURL times out, page.url() shows /finish: lastStep = 30; break
TimeoutFinish ==
    /\ pc = "wait"
    /\ finishSeen' = TRUE
    /\ lastStep' = FinalStep
    /\ pc' = "final"
    /\ exitKind' = "break"
    /\ orderly' = FALSE
    /\ atFinish' = TRUE
    /\ retry' = 0
    /\ UNCHANGED <<repoVars, outerVars, lastPoll, attempt, step, code,
                   runStats, shots, saved, exitCode, polls, maxSeen>>

\* the late detection of an advance, were it to leave lastStep alone
TimeoutAdvancedKeepsLastStep ==
    /\ pc = "wait"
    /\ \E m \in Ahead : Seen(m)
    /\ Push(SubmitRecord)
    /\ EndIteration
    /\ orderly' = FALSE
    /\ atFinish' = FALSE
    /\ retry' = 0
    /\ UNCHANGED <<repoVars, outerVars, lastStep, shots, saved, exitCode,
                   polls, exitKind, finishSeen>>

\* waitForURL times out, page.url() shows a step past this one
TimeoutAdvanced ==
    /\ pc = "wait"
    /\ \E m \in Ahead : Seen(m)
    /\ lastStep' = step
    /\ Push(SubmitRecord)
    /\ EndIteration
    /\ orderly' = FALSE
    /\ atFinish' = FALSE
    /\ retry' = 0
    /\ UNCHANGED <<repoVars, outerVars, shots, saved, exitCode, polls,
                   exitKind, finishSeen>>

\* the timeout without progress, were it to count the step as completed
TimeoutNoProgressCompletes ==
    /\ pc = "wait"
    /\ lastStep' = step
    /\ EndIteration
    /\ retry' = step
    /\ orderly' = FALSE
    /\ atFinish' = FALSE
    /\ UNCHANGED <<repoVars, outerVars, runStats, shots, saved, exitCode,
                   polls, exitKind, finishSeen, maxSeen>>

\* waitForURL times out, page.url() shows no progress
TimeoutNoProgress ==
    /\ pc = "wait"
    /\ EndIteration
    /\ retry' = step
    /\ orderly' = FALSE
    /\ atFinish' = FALSE
    /\ UNCHANGED <<repoVars, outerVars, lastStep, runStats, shots, saved,
                   exitCode, polls, exitKind, finishSeen, maxSeen>>

\* runStats.success = lastStep === 30
SuccessOf(ls) == ls = FinalStep

\* final stats
Finalize ==
    /\ pc = "final"
    /\ runStats' = [runStats EXCEPT !.stepsCompleted = lastStep,
                                    !.success = SuccessOf(lastStep),
                                    !.endTime = "iso"]
    /\ pc' = "shot"
    /\ UNCHANGED <<repoVars, outerVars, atFinish, orderly, lastPoll, attempt,
                   lastStep, step, code, shots, saved, exitCode, polls,
                   exitKind, finishSeen, maxSeen, retry>>

\* page.screenshot
Screenshot ==
    /\ pc = "shot"
    /\ shots' = shots + 1
    /\ pc' = "persist"
    /\ UNCHANGED <<repoVars, outerVars, atFinish, orderly, lastPoll, attempt,
                   lastStep, step, code, runStats, saved, exitCode, polls,
                   exitKind, finishSeen, maxSeen, retry>>

\* the summary, were it written only after a successful run
PersistOnSuccess ==
    /\ pc = "persist"
    /\ saved' = IF runStats.success THEN Append(saved, runStats) ELSE saved
    /\ pc' = "close"
    /\ UNCHANGED <<repoVars, outerVars, atFinish, orderly, lastPoll, attempt,
                   lastStep, step, code, runStats, shots, exitCode, polls,
                   exitKind, finishSeen, maxSeen, retry>>

\* writeFileSync('output/run_stats.json', ...)
Persist ==
    /\ pc = "persist"
    /\ saved' = Append(saved, runStats)
    /\ pc' = "close"
    /\ UNCHANGED <<repoVars, outerVars, atFinish, orderly, lastPoll, attempt,
                   lastStep, step, code, runStats, shots, exitCode, polls,
                   exitKind, finishSeen, maxSeen, retry>>

\* the async function returns: node exits with status 0
ExitStatus(ok) == 0

\* browser.close(); the process ends
Close ==
    /\ pc = "close"
    /\ exitCode' = ExitStatus(runStats.success)
    /\ pc' = "done"
    /\ UNCHANGED <<repoVars, outerVars, atFinish, orderly, lastPoll, attempt,
                   lastStep, step, code, runStats, shots, saved, polls,
                   exitKind, finishSeen, maxSeen, retry>>

Next ==
    \/ LoopExhausted
    \/ PollFinish
    \/ PollUnknown
    \/ PollCompleted
    \/ PollStep
    \/ BypassVerified
    \/ BypassFallThrough
    \/ Attempt
    \/ WaitProgress
    \/ TimeoutFinish
    \/ TimeoutAdvanced
    \/ TimeoutNoProgress
    \/ Finalize
    \/ Screenshot
    \/ Persist
    \/ Close

Spec == Init /\ [][Next]_vars

----------------------------------------------------------------------------
(* Code repository: session extraction and lookup *)

engineVars == <<attempt, lastStep, step, code, runStats, shots, saved,
                exitCode, polls, exitKind, finishSeen, atFinish, maxSeen,
                lastPoll, orderly, retry>>

RepoInit ==
    /\ pc = "target"
    /\ plainCodes \in PlainLists
    /\ blob = << >>
    /\ text = << >>
    /\ codes = << >>
    /\ index = 0
    /\ out = Undefined
    /\ attempt = 0
    /\ lastStep = 0
    /\ step = 0
    /\ code = Undefined
    /\ runStats = [stepsCompleted |-> 0, totalSteps |-> TotalSteps,
                   success |-> FALSE, stepDetails |-> <<>>, endTime |-> "null"]
    /\ shots = 0
    /\ saved = <<>>
    /\ exitCode = -1
    /\ polls = 0
    /\ exitKind = "running"
    /\ finishSeen = FALSE
    /\ atFinish = FALSE
    /\ maxSeen = 0
    /\ lastPoll = "none"
    /\ orderly = TRUE
    /\ retry = 0
    /\ OuterIdle

\* the target stores the encrypted session
TargetWritesSession ==
    /\ pc = "target"
    /\ blob' = Encrypt(Stringify(plainCodes))
    /\ pc' = "extract"
    /\ UNCHANGED <<engineVars, outerVars, text, codes, plainCodes, index,
                   out>>

\* the target stores no session
TargetLeavesNoSession ==
    /\ pc = "target"
    /\ blob' = Null
    /\ pc' = "extract"
    /\ UNCHANGED <<engineVars, outerVars, text, codes, plainCodes, index, out>>

\* blobs that do not hold a code list: '!!' (no base64 at all), the
\* encrypted document '{}', and the encrypted session cut short
OtherBlobs(list) ==
    { << 33, 33 >>,
      Encrypt(<< 123, 125 >>),
      Encrypt(SubSeq(Stringify(list), 1, Len(Stringify(list)) - 1)) }

\* the target stores something else under the session key
TargetWritesOther ==
    /\ pc = "target"
    /\ blob' \in OtherBlobs(plainCodes)
    /\ pc' = "extract"
    /\ UNCHANGED <<engineVars, outerVars, text, codes, plainCodes, index, out>>

\* const sessionData = ...getItem('wo_session');
\* const codes = JSON.parse(decrypt(sessionData)).codes; codes.length
\* Buffer.from(null, 'base64') throws, JSON.parse throws on a text that is
\* no document, and codes.length throws when the document has no code
\* list: the main function's promise is rejected, nothing after the throw
\* runs, and node exits
Extract ==
    /\ pc = "extract"
    /\ LET parsed == IF blob = Null THEN ParseError
                     ELSE JsonCodes(decrypt(blob))
       IN  /\ text' = IF blob = Null THEN text ELSE decrypt(blob)
           /\ IF parsed.ok
                 THEN /\ codes' = parsed.list
                      /\ pc' = "lookup"
                      /\ UNCHANGED exitCode
                 ELSE /\ codes' = codes
                      /\ pc' = "crashed"
                      /\ exitCode' = CrashStatus
    /\ UNCHANGED <<outerVars, blob, plainCodes, index, out, attempt, lastStep,
                   step, code, runStats, shots, saved, polls, exitKind,
                   finishSeen, atFinish, maxSeen, lastPoll, orderly, retry>>

\* a code is asked for at position i
Lookup ==
    /\ pc = "lookup"
    /\ \E i \in 0..MaxIndex :
        /\ index' = i
        /\ out' = CodeFor(codes, i)
    /\ pc' = "looked"
    /\ UNCHANGED <<engineVars, outerVars, blob, text, codes, plainCodes>>

RepoNext ==
    \/ TargetWritesSession
    \/ TargetLeavesNoSession
    \/ TargetWritesOther
    \/ Extract
    \/ Lookup

RepoSpec == RepoInit /\ [][RepoNext]_vars

(* Properties of the code repository *)

\* C8 (as claimed): the lookup never fails: for an index beyond the
\* table's range it returns the table's last entry, and for an index
\* present in the table that index's entry.
C8_LookupNeverFails ==
    (pc = "looked" /\ Len(codes) > 0)
        => out = IF index < Len(codes) THEN codes[index + 1]
                 ELSE codes[Len(codes)]

\* C9: for the blob the target made of its code list, decrypt undoes the
\* XOR with the repeating key and the base64 encoding: the decrypted
\* text is the text the target encrypted, the extracted code list is the
\* list the target stored, and a lookup at a position within the list
\* returns the (non-empty) code at that position.
C9_RoundTrip ==
    (pc \in {"lookup", "looked", "crashed"}
       /\ blob = Encrypt(Stringify(plainCodes))) =>
        /\ pc # "crashed"
        /\ text = Stringify(plainCodes)
        /\ codes = plainCodes
        /\ (pc = "looked" /\ index < Len(plainCodes)
              /\ plainCodes[index + 1] # EmptyString)
             => out = plainCodes[index + 1]

\* C11 (as claimed): when the session blob is absent or does not decode
\* to a document with a code list, the run aborts before any step is
\* polled or submitted, and the summary as it stands is still written on
\* the way out.
C11_DecodeFailureFlushes ==
    pc = "crashed" =>
        /\ polls = 0 /\ attempt = 0 /\ runStats.stepDetails = << >>
        /\ exitCode # 0
        /\ saved = << runStats >>

\* a session text longer than the key, its second code looked up
C9_Witness ==
    /\ pc = "looked"
    /\ Len(text) > Len(XOR_KEY)
    /\ plainCodes = << << 65 >>, << 233, 49 >> >>
    /\ index = 1
    /\ out = << 233, 49 >>

----------------------------------------------------------------------------
(* The launchers: solve.sh and its PowerShell counterpart *)

\* the solver's variables before the solver has run
SolverIdle ==
    /\ attempt = 0
    /\ lastStep = 0
    /\ runStats = [stepsCompleted |-> 0, totalSteps |-> TotalSteps,
                   success |-> FALSE, stepDetails |-> <<>>, endTime |-> "null"]
    /\ shots = 0
    /\ saved = <<>>
    /\ polls = 0
    /\ exitKind = "running"
    /\ finishSeen = FALSE
    /\ atFinish = FALSE
    /\ maxSeen = 0
    /\ lastPoll = "none"
    /\ orderly = TRUE
    /\ retry = 0
    /\ blob = << >>
    /\ text = << >>
    /\ plainCodes = << >>
    /\ index = 0
    /\ out = Undefined

solverVars == <<attempt, lastStep, step, code, runStats, shots, saved, polls,
                exitKind, finishSeen, atFinish, maxSeen, lastPoll, orderly,
                retry, repoVars, pageVars>>

\* the launcher has set up the environment and is about to run the solver
LaunchInit ==
    /\ pc = "launch"
    /\ script \in {"sh", "ps"}
    /\ banner = "none"
    /\ launcherExit = -1
    /\ exitCode = -1
    /\ codes = << >>
    /\ step = 0
    /\ code = Undefined
    /\ SolverIdle
    /\ dom = {}
    /\ passes = 0
    /\ clicks = 0
    /\ absorbed = 0
    /\ scrolled = FALSE
    /\ markers = {}
    /\ events = << >>

\* solve.sh: node "$ROOT_DIR/solver.js" under set -euo pipefail: a
\* non-zero status of this simple command ends the script at once with
\* that status; otherwise EXIT_CODE=$? is reached
RunSolverSh ==
    /\ pc = "launch"
    /\ script = "sh"
    /\ \E st \in 0..MaxStatus :
        /\ exitCode' = st
        /\ IF st # 0
             THEN pc' = "exited" /\ launcherExit' = st
             ELSE pc' = "results" /\ UNCHANGED launcherExit
    /\ UNCHANGED <<script, banner, solverVars>>

\* solve.ps1: & node ...; $exitCode = $LASTEXITCODE.  The status of a
\* native command raises no error under $ErrorActionPreference = "Stop"
RunSolverPs ==
    /\ pc = "launch"
    /\ script = "ps"
    /\ \E st \in 0..MaxStatus : exitCode' = st
    /\ pc' = "results"
    /\ UNCHANGED <<script, banner, launcherExit, solverVars>>

\* if [ $EXIT_CODE -eq 0 ]; then success banner; else failure banner,
\* exit $EXIT_CODE
ShowResultsSh ==
    /\ pc = "results"
    /\ script = "sh"
    /\ IF exitCode = 0
         THEN banner' = "success" /\ pc' = "tail" /\ UNCHANGED launcherExit
         ELSE banner' = "failure" /\ pc' = "exited"
              /\ launcherExit' = exitCode
    /\ UNCHANGED <<script, exitCode, solverVars>>

\* if ($exitCode -eq 0) { success banner } else { failure banner;
\* exit $exitCode }
ShowResultsPs ==
    /\ pc = "results"
    /\ script = "ps"
    /\ IF exitCode = 0
         THEN banner' = "success" /\ pc' = "tail" /\ UNCHANGED launcherExit
         ELSE banner' = "failure" /\ pc' = "exited"
              /\ launcherExit' = exitCode
    /\ UNCHANGED <<script, exitCode, solverVars>>

\* the script runs off its end
LauncherEnds ==
    /\ pc = "tail"
    /\ launcherExit' = 0
    /\ pc' = "exited"
    /\ UNCHANGED <<script, banner, exitCode, solverVars>>

LaunchNext ==
    \/ RunSolverSh
    \/ RunSolverPs
    \/ ShowResultsSh
    \/ ShowResultsPs
    \/ LauncherEnds

LaunchSpec == LaunchInit /\ [][LaunchNext]_vars

\* C13 (as claimed): when node exits with a non-zero status the launcher
\* prints the failure banner and exits with that status; the success
\* banner is printed only when node exited with status 0.
C13_LauncherReportsFailure ==
    pc = "exited" =>
        /\ exitCode # 0 => banner = "failure" /\ launcherExit = exitCode
        /\ banner = "success" => exitCode = 0

----------------------------------------------------------------------------
(* One attempt of a step on the ordinary path, operation by operation *)

\* An element of the document: what the attempt's selectors make of it,
\* and whether its click() throws.
\*   dismiss: a button labelled dismiss, decline, no thanks, skip, cancel
\*   close:   a small element whose text is the glyph x
\*   reveal:  a button whose label contains 'reveal'
\*   tab:     a button labelled 'tab N'
\*   radio:   input[type="radio"]
\*   input:   input[maxlength="6"]
\*   submit:  a button whose label contains 'submit'
Elements ==
    { [kind |-> "dismiss", throws |-> FALSE],
      [kind |-> "dismiss", throws |-> TRUE],
      [kind |-> "close", throws |-> TRUE],
      [kind |-> "reveal", throws |-> FALSE],
      [kind |-> "tab", throws |-> TRUE],
      [kind |-> "radio", throws |-> TRUE],
      [kind |-> "input", throws |-> FALSE],
      [kind |-> "submit", throws |-> FALSE] }

\* the steps an attempt is made of: the first, the last with a code of
\* its own, and step 30 after an unverified bypass
StepInputs == { 1, TotalSteps - 1, BypassStep }

\* the click wrapper without its try/catch
clickUnguarded(el) == IF el.throws THEN "raised" ELSE "clicked"

\* const click = el => { try { el.click(); } catch {} };
click(el) == IF el.throws THEN "absorbed" ELSE "clicked"

\* the elements a pass of the sweep clicks
PassTargets(d) == { e \in d : e.kind \in {"dismiss", "close"} }

\* the elements clicked after the passes
SecondaryTargets(d) == { e \in d : e.kind \in {"reveal", "tab", "radio"} }

Absorbed(S) == Cardinality({ e \in S : click(e) = "absorbed" })
Raises(S) == \E e \in S : click(e) = "raised"

Event(o, a) == [op |-> o, arg |-> a]

\* what an attempt leaves alone
attemptFrame ==
    <<launchVars, codes, blob, text, plainCodes, index, out, attempt,
      lastStep, runStats, shots, saved, exitCode, polls, exitKind, finishSeen,
      atFinish, maxSeen, lastPoll, orderly, retry, step, dom>>

\* an iteration has got past the guards with a step to attempt
StepInit ==
    /\ pc = "resolve"
    /\ step \in StepInputs
    /\ dom \in SUBSET Elements
    /\ code = Undefined
    /\ codes = SessionCodes
    /\ exitCode = -1
    /\ SolverIdle
    /\ script = "none"
    /\ banner = "none"
    /\ launcherExit = -1
    /\ passes = 0
    /\ clicks = 0
    /\ absorbed = 0
    /\ scrolled = FALSE
    /\ markers = {}
    /\ events = << >>

\* const code = codes[step] || codes[29];
ResolveCode ==
    /\ pc = "resolve"
    /\ code' = CodeFor(codes, step)
    /\ pc' = "sweep"
    /\ UNCHANGED <<attemptFrame, passes, clicks, absorbed, scrolled, markers,
                   events>>

\* one of the 12 passes: every dismissal button and every close glyph is
\* clicked through the wrapper, then wait(20)
SweepPass ==
    /\ pc = "sweep"
    /\ passes < SweepPasses
    /\ IF Raises(PassTargets(dom))
         THEN pc' = "crashed" /\ UNCHANGED <<passes, clicks, absorbed>>
         ELSE /\ passes' = passes + 1
              /\ clicks' = clicks + Cardinality(PassTargets(dom))
              /\ absorbed' = absorbed + Absorbed(PassTargets(dom))
              /\ pc' = "sweep"
    /\ UNCHANGED <<attemptFrame, code, scrolled, markers, events>>

\* after the passes: scroll to the bottom, click reveal and tab buttons
\* and radio inputs, write the interaction marker of the step
SweepFinish ==
    /\ pc = "sweep"
    /\ ~(passes < SweepPasses)
    /\ scrolled' = TRUE
    /\ IF Raises(SecondaryTargets(dom))
         THEN pc' = "crashed" /\ UNCHANGED <<clicks, absorbed, markers, events>>
         ELSE /\ clicks' = clicks + Cardinality(SecondaryTargets(dom))
              /\ absorbed' = absorbed + Absorbed(SecondaryTargets(dom))
              /\ markers' = markers \cup { step }
              /\ events' = Append(events, Event("sweep", << >>))
              /\ pc' = "enter"
    /\ UNCHANGED <<attemptFrame, code, passes>>

\* the code entry, were it a bare assignment of the value
EnterCodeValueOnly ==
    /\ pc = "enter"
    /\ events' = IF \E e \in dom : e.kind = "input"
                   THEN events \o << Event("value", code) >>
                   ELSE events
    /\ pc' = "submit"
    /\ UNCHANGED <<attemptFrame, code, passes, clicks, absorbed, scrolled,
                   markers>>

\* waitForTimeout(50), then the code entry: nothing without the input
\* control, else the value is set and an input and a change event are
\* dispatched
EnterCode ==
    /\ pc = "enter"
    /\ events' = IF \E e \in dom : e.kind = "input"
                   THEN events \o << Event("value", code),
                                     Event("input", << >>),
                                     Event("change", << >>) >>
                   ELSE events
    /\ pc' = "submit"
    /\ UNCHANGED <<attemptFrame, code, passes, clicks, absorbed, scrolled,
                   markers>>

\* the first button whose label contains 'submit' is clicked, if any
Submit ==
    /\ pc = "submit"
    /\ events' = IF \E e \in dom : e.kind = "submit"
                   THEN Append(events, Event("submit", << >>))
                   ELSE events
    /\ pc' = "submitted"
    /\ UNCHANGED <<attemptFrame, code, passes, clicks, absorbed, scrolled,
                   markers>>

\* page.waitForURL(..., { timeout: 3500 }) is entered
BeginWait ==
    /\ pc = "submitted"
    /\ events' = Append(events, Event("wait", << >>))
    /\ pc' = "wait"
    /\ UNCHANGED <<attemptFrame, code, passes, clicks, absorbed, scrolled,
                   markers>>

StepNext ==
    \/ ResolveCode
    \/ SweepPass
    \/ SweepFinish
    \/ EnterCode
    \/ Submit
    \/ BeginWait

StepSpec == StepInit /\ [][StepNext]_vars

SweepDone == pc \in {"enter", "submit", "submitted", "wait"}

\* C18: the sweep never raises into the engine and never stops early: a
\* click that throws is caught for that element alone, all 12 passes are
\* made, each clicking every dismissal button and close glyph, then the
\* page is scrolled, the reveal and tab buttons and the radio inputs are
\* clicked, and the interaction marker of the current step is written
\* before the code entry begins.
C18_SweepNeverRaises ==
    /\ pc # "crashed"
    /\ passes <= SweepPasses
    /\ ~SweepDone => markers = {} /\ events = << >> /\ ~scrolled
    /\ SweepDone =>
          /\ passes = SweepPasses
          /\ scrolled
          /\ markers = { step }
          /\ clicks = SweepPasses * Cardinality(PassTargets(dom))
                         + Cardinality(SecondaryTargets(dom))
          /\ absorbed =
                SweepPasses
                  * Cardinality({ e \in PassTargets(dom) : e.throws })
                + Cardinality({ e \in SecondaryTargets(dom) : e.throws })
          /\ events[1] = Event("sweep", << >>)

\* a sweep over a page where a dismissal button, the close glyph, a tab
\* button and the radio input all throw when clicked
C18_Witness ==
    /\ pc = "enter"
    /\ absorbed = 2 * SweepPasses + 2
    /\ clicks = 3 * SweepPasses + 3
    /\ markers = { TotalSteps - 1 }

\* what a whole attempt does to the page, in order
Expected ==
    << Event("sweep", << >>) >>
    \o (IF \E e \in dom : e.kind = "input"
          THEN << Event("value", code), Event("input", << >>),
                  Event("change", << >>) >>
          ELSE << >>)
    \o (IF \E e \in dom : e.kind = "submit"
          THEN << Event("submit", << >>) >>
          ELSE << >>)
    \o << Event("wait", << >>) >>

IsPrefix(s, u) == Len(s) <= Len(u) /\ s = SubSeq(u, 1, Len(s))

\* C19: within one attempt the operations come in a fixed order: the
\* sweep finishes; then, if the input control exists, the code is written
\* to it and an input event and then a change event are dispatched; then
\* the submit button, if there is one, is clicked; only then is the
\* bounded wait entered.  Nothing is done to the input or the submit
\* button before the sweep has finished.
C19_FixedOrder ==
    /\ IsPrefix(events, Expected)
    /\ pc \in {"resolve", "sweep"} => events = << >>
    /\ pc = "enter" => events = SubSeq(Expected, 1, 1)
    /\ pc = "submitted" => events = SubSeq(Expected, 1, Len(Expected) - 1)
    /\ pc = "wait" => events = Expected /\ code = CodeFor(codes, step)

\* step 30 on the ordinary path, input control and submit button present:
\* all six operations made, the wait entered last
C19_Witness ==
    /\ pc = "wait"
    /\ step = BypassStep
    /\ Len(events) = 6
    /\ events[2] = Event("value", At(codes, FallbackIndex))
    /\ events[5].op = "submit"

----------------------------------------------------------------------------
(* Properties of the step loop *)

Left == pc \in {"final", "shot", "persist", "close", "done"}
MidIteration == pc \in {"bypass", "attempt", "wait"}
Details == runStats.stepDetails
StepsOf(log) == [i \in 1..Len(log) |-> log[i].step]
UpTo(k) == [i \in 1..k |-> i]
CountMethod(log, m) == Cardinality({i \in 1..Len(log) : log[i].method = m})

C1_Inv ==
    /\ polls <= MaxAttempts
    /\ polls = attempt + (IF MidIteration \/ exitKind = "break" THEN 1 ELSE 0)
    /\ Left <=> exitKind \in {"break", "exhausted"}
    /\ ~Left <=> exitKind = "running"
    /\ exitKind = "break" => finishSeen /\ lastStep = FinalStep
    /\ exitKind = "exhausted" => polls = MaxAttempts /\ attempt = MaxAttempts

\* what is left of the run: the polls not yet made, then the steps of the
\* current iteration or of the end of the run
Rank ==
    CASE pc = "poll" -> 4 * (MaxAttempts - attempt) + 8
      [] pc = "bypass" -> 4 * (MaxAttempts - attempt) + 7
      [] pc = "attempt" -> 4 * (MaxAttempts - attempt) + 6
      [] pc = "wait" -> 4 * (MaxAttempts - attempt) + 5
      [] pc = "final" -> 4
      [] pc = "shot" -> 3
      [] pc = "persist" -> 2
      [] pc = "close" -> 1
      [] OTHER -> 0

C1_Progress ==
    /\ Rank >= 0
    /\ pc # "done" => ENABLED Next

\* C1: whatever the target shows, the loop enters its body at most 120
\* times, every entry (the no-op waits for an Unknown location or a
\* completed step included) takes one unit of the same budget, and the
\* loop is left in exactly one of two ways: by break, with the terminal
\* marker observed (at the loop head, after the bypass or after a
\* timed-out wait) and lastStep = 30, or by the loop condition failing
\* after all 120 polls.  The run ends: every step of the engine lowers a
\* non-negative rank, and a step is possible until the run is over.
C1_BudgetAndTerminalStates ==
    [](C1_Inv /\ C1_Progress) /\ [][Rank' < Rank]_vars

\* a run that used up the budget, its last poll a no-op wait, after some
\* steps were completed
C1_Witness ==
    /\ pc = "done"
    /\ exitKind = "exhausted"
    /\ polls = MaxAttempts
    /\ lastPoll \in {"unknown", "completed"}
    /\ Len(Details) > 0

\* C2 (as claimed): in the finalized summary success is true if and only
\* if the terminal marker was reached during the run; stated for targets
\* whose step indices stay within 1..30 and whose location, once it has
\* shown the terminal marker, shows it at the engine's last read too;
\* "reached" is "read by the engine".
C2_SuccessIffFinishReached ==
    (pc = "done" /\ maxSeen <= TotalSteps /\ (finishSeen => atFinish))
        => (saved[1].success <=> finishSeen)

\* C3 (as claimed): the process exits with status 0 when the run ends
\* with success = true and with a non-zero status when it ends with
\* success = false.
C3_ExitStatusTellsOutcome ==
    pc = "done" =>
        /\ runStats.success => exitCode = 0
        /\ ~runStats.success => exitCode # 0

C4_Inv ==
    /\ MidIteration => step > lastStep
    /\ lastPoll = "completed" => ~MidIteration /\ step = 0 /\ code = Undefined
    /\ \A i, j \in 1..Len(Details) : i # j => Details[i].step # Details[j].step

C4_Act ==
    lastPoll' = "completed" /\ polls' = polls + 1
        => /\ runStats' = runStats
           /\ lastStep' = lastStep
           /\ pc' = "poll"

\* C4: a step index n is never processed once lastStep >= n: an iteration
\* gets past the guard only with step > lastStep, a poll that shows a
\* completed step starts no bypass and no attempt (sweep, code entry,
\* submission) and leaves the log and lastStep as they are, and the log
\* never holds two records with the same step index.
C4_NoReprocess == [](C4_Inv) /\ [][C4_Act]_vars

\* step 5 was completed, with one record, and a later poll showed a
\* completed step again
C4_Witness ==
    /\ lastPoll = "completed"
    /\ lastStep = 5
    /\ maxSeen = 6
    /\ Cardinality({i \in 1..Len(Details) : Details[i].step = 5}) = 1

\* C5: for every k in 1..30, if the target was taken through steps
\* 1..k-1 in order, showed step k and never anything past it (no /finish,
\* no larger step index), the run ends by exhaustion with success = false
\* and stepsCompleted = k - 1, and the summary is finalized and written.
C5_StuckAtK ==
    pc = "done" =>
        \A k \in 1..TotalSteps :
            (~finishSeen /\ maxSeen = k /\ StepsOf(Details) = UpTo(k - 1))
                => /\ exitKind = "exhausted"
                   /\ saved = << runStats >>
                   /\ runStats.endTime = "iso"
                   /\ runStats.success = FALSE
                   /\ runStats.stepsCompleted = k - 1

\* stuck on step 30 itself: the bypass never verified, the last
\* iteration a submission that timed out
C5_Witness ==
    /\ pc = "done"
    /\ ~finishSeen
    /\ maxSeen = TotalSteps
    /\ StepsOf(Details) = UpTo(TotalSteps - 1)
    /\ lastPoll = "none"

C6_Act ==
    (pc = "bypass" /\ pc' # "attempt")
        => /\ step = BypassStep /\ step > lastStep
           /\ runStats' = [runStats EXCEPT !.stepDetails =
                  Append(@, [step |-> BypassStep, code |-> BypassCode,
                             method |-> BypassMethod])]
           /\ code' = Undefined
           /\ lastStep' = FinalStep
           /\ pc' = "final"
           /\ exitKind' = "break"

C6_Inv ==
    (pc = "done" /\ Len(Details) > 0
       /\ Details[Len(Details)].method = BypassMethod)
        => /\ saved[1].success
           /\ saved[1].stepsCompleted = FinalStep
           /\ CountMethod(Details, BypassMethod) = 1

\* C6: when the bypass is verified on step 30 (not yet completed), one
\* record for step 30 with the bypass sentinel as code and the bypass
\* method is appended, no code was looked up or entered for the step, the
\* loop is left at once, and the run ends with success = true.
C6_BypassVerified == [][C6_Act]_vars /\ [](C6_Inv)

C6_Witness ==
    /\ pc = "done"
    /\ Len(Details) = TotalSteps
    /\ Details[TotalSteps].method = BypassMethod
    /\ StepsOf(Details) = UpTo(TotalSteps)

C10_ArtifactsOnce ==
    /\ ~Left => shots = 0 /\ saved = << >> /\ runStats.endTime = "null"
    /\ shots <= 1 /\ Len(saved) <= 1
    /\ pc = "done" =>
        /\ shots = 1
        /\ saved = << runStats >>
        /\ runStats.endTime = "iso"
        /\ runStats.stepsCompleted = lastStep
        /\ runStats.success = (lastStep = FinalStep)

C10_Witness ==
    /\ pc = "done"
    /\ exitKind = "exhausted"
    /\ ~runStats.success
    /\ shots = 1
    /\ Len(saved) = 1

\* C12 (as claimed): every record in the log has the method tag
\* code_submission or router_bypass: a record of the ordinary path has
\* code_submission and the code that was submitted for its step, the
\* record of the bypass path has router_bypass and the bypass sentinel as
\* its code.
C12_MethodTags ==
    \A i \in 1..Len(Details) :
        \/ /\ Details[i].method = "code_submission"
           /\ Details[i].code = CodeFor(codes, Details[i].step)
        \/ /\ Details[i].method = "router_bypass"
           /\ Details[i].code = BypassCode

C14_Act ==
    (pc = "wait" /\ (WaitProgress \/ TimeoutFinish \/ TimeoutAdvanced))
        => /\ runStats' = [runStats EXCEPT !.stepDetails =
                  Append(@, [step |-> step, code |-> code,
                             method |-> SubmitMethod])]
           /\ lastStep' >= step

\* C14 (as claimed): whenever progress is detected on an ordinary step n
\* (the wait resolved, or after its timeout the location showed /finish
\* or a step past n), exactly one record for step n with method
\* code_submission is appended and lastStep is updated.
C14_ProgressAlwaysRecorded == [][C14_Act]_vars

C15_Inv ==
    (retry # 0 /\ ~Left) =>
        /\ retry > lastStep
        /\ MidIteration => step = retry
        /\ InLoop => ENABLED (PollStep /\ step' = retry)
        /\ pc = "wait" => code = CodeFor(codes, retry)

C15_Act ==
    /\ (pc = "wait" /\ retry' # 0)
          => /\ retry' = step
             /\ runStats' = runStats
             /\ lastStep' = lastStep
             /\ pc' = "poll"
             /\ attempt' = attempt + 1
    /\ (pc = "poll" /\ retry # 0 /\ step' = retry)
          => /\ pc' = IF retry = BypassStep THEN "bypass" ELSE "attempt"
             /\ attempt' = attempt
    /\ (pc = "attempt" /\ retry # 0)
          => pc' = "wait" /\ code' = CodeFor(codes, retry)

\* C15: when the wait of step n times out and the location shows neither
\* /finish nor a step past n, the iteration appends no record, leaves
\* lastStep as it is and ends; n is still above lastStep, so while the
\* budget lasts a next poll that shows n again is let through the guard
\* and the step is attempted again in full (for n = 30, after the bypass
\* was tried again).
C15_TimeoutRetries == [](C15_Inv) /\ [][C15_Act]_vars

\* step 3 submitted a second time after its first wait timed out
C15_Witness ==
    /\ pc = "wait"
    /\ retry = 3
    /\ step = 3
    /\ lastStep = 2
    /\ code = At(codes, 3)
    /\ StepsOf(Details) = UpTo(2)

C16_Inv ==
    /\ pc = "bypass" => step = BypassStep /\ lastStep < BypassStep
    /\ \A i \in 1..Len(Details) :
          Details[i].method = BypassMethod => Details[i].step = BypassStep

C16_Act ==
    /\ (pc # "bypass" /\ pc' = "bypass")
          => pc = "poll" /\ step' = BypassStep /\ step' > lastStep
    /\ (pc = "poll" /\ lastPoll' = "step" /\ step' # BypassStep)
          => pc' = "attempt"
    /\ (pc = "bypass" /\ ~atFinish')
          => /\ runStats' = runStats
             /\ lastStep' = lastStep
             /\ attempt' = attempt
             /\ step' = BypassStep
             /\ pc' = "attempt"
    /\ (pc = "attempt" /\ step = BypassStep)
          => pc' = "wait" /\ code' = CodeFor(codes, BypassStep)

\* C16: the bypass is entered only from a poll that shows exactly step
\* 30 with step 30 not yet completed, and for no other step; a bypass
\* record is a record of step 30; when the location read after the
\* settle delay does not show /finish, no record is appended and the
\* same iteration goes on to the ordinary path for step 30 (code lookup,
\* sweep, code entry, submission, then the bounded wait).
C16_BypassGate == [](C16_Inv) /\ [][C16_Act]_vars

\* the ordinary path reached for step 30 after an unverified bypass
C16_Witness ==
    /\ pc = "wait"
    /\ step = BypassStep
    /\ lastStep = BypassStep - 1
    /\ CountMethod(Details, BypassMethod) = 0
    /\ code = At(codes, FallbackIndex)

C17_Act ==
    (InLoop /\ pc' # "final" /\ lastPoll' \in {"unknown", "completed"})
        => /\ lastStep' = lastStep
           /\ runStats' = runStats
           /\ codes' = codes
           /\ step' = 0 /\ code' = Undefined
           /\ pc' = "poll"
           /\ attempt' = attempt + 1
           /\ polls' = polls + 1
           /\ UNCHANGED <<shots, saved, exitCode, markers, events>>

C17_Inv ==
    lastPoll \in {"unknown", "completed"}
        => /\ pc \notin {"bypass", "attempt", "wait"}
           /\ step = 0

\* C17: a poll that reads a location with neither marker, or a step
\* index n <= lastStep, changes neither lastStep nor the log nor the code
\* table, starts no bypass and no attempt (no sweep, code entry or
\* submission), and takes exactly one poll of the budget.
C17_NoOpWait == [][C17_Act]_vars /\ [](C17_Inv)

\* two steps completed and the fifth poll a no-op wait on an Unknown
\* location
C17_Witness ==
    /\ pc = "poll"
    /\ lastPoll = "unknown"
    /\ polls = 5
    /\ lastStep = 2
    /\ Len(Details) = 2

C20_Act ==
    \/ runStats'.stepDetails = Details
    \/ /\ Len(runStats'.stepDetails) = Len(Details) + 1
       /\ SubSeq(runStats'.stepDetails, 1, Len(Details)) = Details

C20_Inv ==
    /\ \A i, j \in 1..Len(Details) :
          i < j => Details[i].step < Details[j].step
    /\ \A k \in 1..Len(saved) : saved[k].stepDetails = Details

\* C20: every step of the run leaves the log as it is or appends one
\* record to it, so the log at any time extends the log at any earlier
\* time with the earlier records unchanged; the step indices of the
\* records are strictly increasing in log order; the log written to the
\* results file is that log.
C20_AppendOnlyOrdered == [][C20_Act]_vars /\ [](C20_Inv)

\* three records, for steps 1, 2 and 3, with the loop still running
C20_Witness ==
    /\ pc = "poll"
    /\ Len(Details) = 3
    /\ StepsOf(Details) = UpTo(3)
    /\ lastStep = 3

\* C21 (as claimed): in the finalized summary stepsCompleted is the
\* number of records in the log, for a run that ended in success as for
\* one that ended by exhaustion.
C21_StepsCompletedCountsRecords ==
    pc = "done" =>
        saved[1].stepsCompleted = Len(saved[1].stepDetails)

C22_Inv ==
    maxSeen <= TotalSteps =>
        /\ lastStep \in 0..TotalSteps
        /\ \A i \in 1..Len(Details) : Details[i].step <= lastStep
        /\ \A k \in 1..Len(saved) :
              saved[k].stepsCompleted <= saved[k].totalSteps

C22_Act == maxSeen' <= TotalSteps => lastStep' >= lastStep

\* C22: as long as every step index read from the location is at most
\* 30, lastStep never decreases, stays within 0..30, and is at least the
\* step index of every record in the log; the stepsCompleted written to
\* the results file is then at most totalSteps.
C22_LastStepBounds == [](C22_Inv) /\ [][C22_Act]_vars

\* a finished run in which step 30 itself went through the ordinary path
\* and was recorded
C22_Witness ==
    /\ pc = "done"
    /\ maxSeen = TotalSteps
    /\ saved[1].stepsCompleted = TotalSteps
    /\ Len(Details) = TotalSteps
    /\ Details[TotalSteps].step = TotalSteps
    /\ Details[TotalSteps].method = SubmitMethod

====
